---- MODULE Spec2Model ----
(***************************************************************************)
(* fluxState engine: the Phase-1 scheduler (phase1_naive, solve_for_k,     *)
(* dfs, reconstruct), the Phase-2 allocator (water_fill) of                *)
(* src/engine/src/scheduling.rs, and the gossip publish loop of            *)
(* src/engine/src/gossip.rs.                                               *)
(*                                                                         *)
(* Indices are 0-based in the source and kept 0-based in the decisions     *)
(* (Extend(idx)) and loop counters; a TLA+ sequence is 1-based, so the     *)
(* element the source calls v[i] is v[i + 1] here.                         *)
(***************************************************************************)
EXTENDS Integers, Sequences, FiniteSets, TLC

(***************************************************************************)
(* Bounds of the model.                                                    *)
(***************************************************************************)
\* longest GPU list handed to phase1_naive
MaxN == 3
\* largest layer_cap of a GPU
MaxCap == 3
\* largest compute_cap of a GPU
MaxComp == 2
\* largest model_layer
MaxL == 4
\* largest r_rtt
MaxRtt == 2

(***************************************************************************)
(* Program constants.                                                      *)
(***************************************************************************)
\* scheduling.rs:243  const INF: usize = usize::MAX / 4.  Stage counts are at
\* most the number of GPUs, and INF is only compared with them, incremented
\* once (1 + dfs(..)) and converted to f64 for the score; any value far above
\* every reachable stage count and every t_comp, r_rtt of the model orders the
\* same way, so the model keeps a 32-bit stand-in.
INF == 1000000

(***************************************************************************)
(* Small helpers for usize arithmetic and Vec operations.                  *)
(***************************************************************************)
\* usize::saturating_sub
SatSub(a, b) == IF a > b THEN a - b ELSE 0

Min(a, b) == IF a < b THEN a ELSE b

RECURSIVE SumSeq(_)
\* iter().sum()
SumSeq(s) == IF s = <<>> THEN 0 ELSE Head(s) + SumSeq(Tail(s))

\* Vec::remove(idx), idx 0-based
RemoveAt(s, idx) == [j \in 1..(Len(s) - 1) |-> IF j <= idx THEN s[j] ELSE s[j + 1]]

\* insertion of x into an ascending sequence, after the elements <= x
RECURSIVE InsertAsc(_, _)
InsertAsc(s, x) ==
    IF s = <<>> THEN <<x>>
    ELSE IF x < Head(s) THEN <<x>> \o s
    ELSE <<Head(s)>> \o InsertAsc(Tail(s), x)

RECURSIVE SortAsc(_)
\* DpState::normalize: self.r.sort_unstable() on a Vec<usize>; equal integers
\* are indistinguishable, so the result is the one ascending arrangement
SortAsc(s) == IF s = <<>> THEN <<>> ELSE InsertAsc(SortAsc(Tail(s)), Head(s))

(***************************************************************************)
(* Types of scheduling.rs.                                                 *)
(***************************************************************************)
\* struct Gpu { layer_cap, compute_cap }
Gpu(c, f) == [layer_cap |-> c, compute_cap |-> f]

\* enum Decision { Skip, Extend(usize), StartNew }; idx is read for Extend only
Skip == [tag |-> "Skip", idx |-> 0]
Extend(j) == [tag |-> "Extend", idx |-> j]
StartNew == [tag |-> "StartNew", idx |-> 0]

\* DpState::new
DpStateNew == [r |-> <<>>, f |-> 0]

(***************************************************************************)
(* dfs: the exhaustive search of solve_for_k.  It returns the minimum      *)
(* stage count and carries best_path (a &mut Vec the source overwrites at  *)
(* every terminal with f = k) through the calls in the source's order.     *)
(* The result is [v |-> usize returned, bp |-> best_path afterwards].      *)
(* The source is strict: best_path has its value before a call starts.     *)
(* Evaluated(x) makes the model read an argument at the same point, so     *)
(* that the calls are evaluated in the source's order.                     *)
(***************************************************************************)
Evaluated(x) == x = x

\* the state after Extend(idx) on a GPU of capacity ci (scheduling.rs:274-282)
ExtendState(state, idx, ci) ==
    LET nr == SatSub(state.r[idx + 1], ci)
    IN  IF nr = 0
        THEN [r |-> SortAsc(RemoveAt(state.r, idx)), f |-> state.f + 1]
        ELSE [r |-> SortAsc([state.r EXCEPT ![idx + 1] = nr]), f |-> state.f]

\* a StartNew that appends the residual and leaves r as it is
StartNewStateUnsorted(state, model_layer, ci) ==
    LET residual == SatSub(model_layer, ci)
    IN  IF residual = 0
        THEN [r |-> state.r, f |-> state.f + 1]
        ELSE [r |-> Append(state.r, residual), f |-> state.f]

\* the state after StartNew on a GPU of capacity ci (scheduling.rs:295-303)
StartNewState(state, model_layer, ci) ==
    LET residual == SatSub(model_layer, ci)
    IN  IF residual = 0
        THEN [r |-> state.r, f |-> state.f + 1]
        ELSE [r |-> SortAsc(Append(state.r, residual)), f |-> state.f]

\* StartNew is tried only while fewer than k pipelines exist (scheduling.rs:294)
CanStartNew(state, k) == state.f + Len(state.r) < k

\* `if v < best { best = v }` after a recursive call that returned sub, where
\* v = inc + sub.v; best_path is what the call left in it
Keep(best, sub, inc) ==
    [v |-> IF inc + sub.v < best THEN inc + sub.v ELSE best, bp |-> sub.bp]

RECURSIVE dfs(_, _, _, _, _, _, _)
RECURSIVE dfsExtend(_, _, _, _, _, _, _, _)

\* 2. extend: the loop `for idx in 0..state.r.len()` from idx on; acc is the
\* running best and best_path (scheduling.rs:272-290)
dfsExtend(idx, i, gpus, model_layer, k, state, path, acc) ==
    IF ~Evaluated(acc) \/ idx >= Len(state.r) THEN acc
    ELSE dfsExtend(idx + 1, i, gpus, model_layer, k, state, path,
            Keep(acc.v,
                 dfs(i + 1, gpus, model_layer, k,
                     ExtendState(state, idx, gpus[i + 1].layer_cap),
                     Append(path, Extend(idx)), acc.bp),
                 1))

\* 3. start new (scheduling.rs:292-312)
dfsStartNew(i, gpus, model_layer, k, state, path, acc) ==
    IF Evaluated(acc) /\ CanStartNew(state, k)
    THEN Keep(acc.v,
              dfs(i + 1, gpus, model_layer, k,
                  StartNewState(state, model_layer, gpus[i + 1].layer_cap),
                  Append(path, StartNew), acc.bp),
              1)
    ELSE acc

dfs(i, gpus, model_layer, k, state, path, best_path) ==
    IF Evaluated(best_path) /\ i = Len(gpus)
    THEN IF state.f = k
         THEN [v |-> 0, bp |-> path]
         ELSE [v |-> INF, bp |-> best_path]
    ELSE dfsStartNew(i, gpus, model_layer, k, state, path,
            dfsExtend(0, i, gpus, model_layer, k, state, path,
                \* 1. skip (scheduling.rs:264-270)
                Keep(INF,
                     dfs(i + 1, gpus, model_layer, k, state,
                         Append(path, Skip), best_path),
                     0)))

RECURSIVE dfsStates(_, _, _, _, _)
\* the DpStates of the calls dfs makes below the call dfs(i, .., state, ..),
\* that call included
dfsStates(i, gpus, model_layer, k, state) ==
    IF i = Len(gpus) THEN {state}
    ELSE LET ci == gpus[i + 1].layer_cap
         IN  {state}
             \cup dfsStates(i + 1, gpus, model_layer, k, state)
             \cup UNION {dfsStates(i + 1, gpus, model_layer, k,
                                   ExtendState(state, idx, ci)) :
                            idx \in 0..(Len(state.r) - 1)}
             \cup (IF CanStartNew(state, k)
                   THEN dfsStates(i + 1, gpus, model_layer, k,
                                  StartNewState(state, model_layer, ci))
                   ELSE {})

\* solve_for_k: (res, trace)
solve_for_k(gpus, model_layer, k) ==
    LET res == dfs(0, gpus, model_layer, k, DpStateNew, <<>>, <<>>)
    IN  [s_star |-> res.v, trace |-> res.bp]

(***************************************************************************)
(* reconstruct: replay of a trace into pipelines of GPU indices.           *)
(***************************************************************************)
RECURSIVE reconstructFrom(_, _, _, _)
\* the loop over trace.iter().enumerate() from position gpu_idx on
reconstructFrom(gpu_idx, trace, pipelines, active) ==
    IF gpu_idx >= Len(trace) THEN pipelines
    ELSE LET decision == trace[gpu_idx + 1]
         IN  IF decision.tag = "Skip"
             THEN reconstructFrom(gpu_idx + 1, trace, pipelines, active)
             ELSE IF decision.tag = "StartNew"
             THEN reconstructFrom(gpu_idx + 1, trace,
                                  Append(pipelines, <<gpu_idx>>),
                                  Append(active, Len(pipelines)))
             ELSE IF decision.idx < Len(active)
             THEN LET pipe_id == active[decision.idx + 1]
                  IN  reconstructFrom(gpu_idx + 1, trace,
                          [pipelines EXCEPT ![pipe_id + 1] = Append(@, gpu_idx)],
                          active)
             ELSE reconstructFrom(gpu_idx + 1, trace, pipelines, active)

\* a replay that starts at the second decision
reconstructIdxFromOne(trace) == reconstructFrom(1, trace, <<>>, <<>>)

\* the pipelines as lists of 0-based GPU indices (scheduling.rs:315-331)
reconstructIdx(trace) == reconstructFrom(0, trace, <<>>, <<>>)

\* reconstruct: the pipelines as lists of Gpu (scheduling.rs:333-350)
reconstruct(trace, gpus) ==
    LET idx == reconstructIdx(trace)
    IN  [p \in 1..Len(idx) |-> [s \in 1..Len(idx[p]) |-> gpus[idx[p][s] + 1]]]

(***************************************************************************)
(* water_fill.  The source computes in f64: lambda = L / F, the capped     *)
(* ideal share min(lambda * f, c), its floor and its fractional part.      *)
(* The model computes the same quantities as exact fractions over the      *)
(* common denominator F (total_f): a share is num / F.  Within the bounds  *)
(* of the model the f64 values floor to the same integers and order their  *)
(* fractional parts the same way as the exact fractions.                   *)
(***************************************************************************)
\* total_f (scheduling.rs:189)
TotalF(compute_cap) == SumSeq(compute_cap)

\* F * frac[i] (scheduling.rs:193-200).  With total_f = 0 lambda is inf or NaN,
\* ideal = lambda * 0 is NaN and f64::min returns the other operand, c.
FracNum(model_layer, layer_cap, compute_cap) ==
    LET F == TotalF(compute_cap)
    IN  [i \in 1..Len(layer_cap) |->
            IF F = 0 THEN layer_cap[i]
            ELSE Min(model_layer * compute_cap[i], layer_cap[i] * F)]

\* alloc after the floor step (scheduling.rs:202)
FloorAlloc(model_layer, layer_cap, compute_cap) ==
    LET F == TotalF(compute_cap)
        num == FracNum(model_layer, layer_cap, compute_cap)
    IN  [i \in 1..Len(layer_cap) |-> IF F = 0 THEN num[i] ELSE num[i] \div F]

\* F * (x - x.floor()) (scheduling.rs:207-211)
RemainderNum(model_layer, layer_cap, compute_cap) ==
    LET F == TotalF(compute_cap)
        num == FracNum(model_layer, layer_cap, compute_cap)
    IN  [i \in 1..Len(layer_cap) |-> IF F = 0 THEN 0 ELSE num[i] % F]

RECURSIVE InsertDesc(_, _, _)
\* insertion of index x, smaller than every index of s, into a list of
\* indices ordered by descending key: before the first index whose key is
\* <= key[x], so that equal keys stay in input order (the sort is stable)
InsertDesc(s, x, key) ==
    IF s = <<>> THEN <<x>>
    ELSE IF key[x] >= key[Head(s)] THEN <<x>> \o s
    ELSE <<Head(s)>> \o InsertDesc(Tail(s), x, key)

RECURSIVE SortDescFrom(_, _, _)
\* the indices i..n by descending key, stable
SortDescFrom(i, n, key) ==
    IF i > n THEN <<>>
    ELSE InsertDesc(SortDescFrom(i + 1, n, key), i, key)

\* remainders.sort_by(|a, b| b.1.partial_cmp(&a.1).unwrap()): the stage indices
\* (1-based here) by descending fractional part, stable (scheduling.rs:213)
RemainderOrder(model_layer, layer_cap, compute_cap) ==
    SortDescFrom(1, Len(layer_cap),
                 RemainderNum(model_layer, layer_cap, compute_cap))

\* alloc, remaining and the position in `remainders` before the Hamilton loop
\* (scheduling.rs:202-205)
WfInit(model_layer, layer_cap, compute_cap) ==
    LET a == FloorAlloc(model_layer, layer_cap, compute_cap)
    IN  [alloc |-> a, remaining |-> SatSub(model_layer, SumSeq(a)), pos |-> 0]

\* the loop has left (break on remaining = 0, or the list is exhausted)
WfLoopDone(st, order) == st.remaining = 0 \/ st.pos >= Len(order)

\* an iteration that hands a layer to the stage without looking at its cap
WfLoopStepNoCap(st, order, layer_cap) ==
    LET idx == order[st.pos + 1]
    IN  [alloc |-> [st.alloc EXCEPT ![idx] = @ + 1],
         remaining |-> st.remaining - 1, pos |-> st.pos + 1]

\* one iteration of `for (idx, _) in remainders` (scheduling.rs:216-224)
WfLoopStep(st, order, layer_cap) ==
    LET idx == order[st.pos + 1]
    IN  IF st.alloc[idx] < layer_cap[idx]
        THEN [alloc |-> [st.alloc EXCEPT ![idx] = @ + 1],
              remaining |-> st.remaining - 1, pos |-> st.pos + 1]
        ELSE [st EXCEPT !.pos = @ + 1]

RECURSIVE WfLoop(_, _, _)
WfLoop(st, order, layer_cap) ==
    IF WfLoopDone(st, order) THEN st
    ELSE WfLoop(WfLoopStep(st, order, layer_cap), order, layer_cap)

\* water_fill(model_layer, layer_cap, compute_cap) -> alloc
water_fill(model_layer, layer_cap, compute_cap) ==
    WfLoop(WfInit(model_layer, layer_cap, compute_cap),
           RemainderOrder(model_layer, layer_cap, compute_cap),
           layer_cap).alloc

(***************************************************************************)
(* The score of phase1_naive.  alpha is 1.0 in the model (as in main), so  *)
(* z = k / (t_comp + (s_star / k) * r_rtt) = k*k / (k*t_comp + s_star*r_rtt);*)
(* a score is kept as the fraction [num, den] with den > 0 and two scores  *)
(* are compared by cross-multiplication.                                   *)
(***************************************************************************)
\* scheduling.rs:163
Score(k, s_star, t, r) == [num |-> k * k, den |-> k * t + s_star * r]

\* f64::MIN (scheduling.rs:157): below every score, which are all positive
F64Min == [num |-> 0 - 1, den |-> 1]

\* a > b on scores (scheduling.rs:165)
ScoreGt(a, b) == a.num * b.den > b.num * a.den

(***************************************************************************)
(* Inputs of the scheduler.                                                *)
(***************************************************************************)
GpuValues == {Gpu(c, f) : c \in 1..MaxCap, f \in 1..MaxComp}

\* the order in which the inputs are enumerated: by layer_cap, then compute_cap
GpuLeq(a, b) ==
    \/ a.layer_cap < b.layer_cap
    \/ a.layer_cap = b.layer_cap /\ a.compute_cap <= b.compute_cap

\* GPU lists of length n over a set of GPUs, one list per multiset: the sort of
\* phase1_naive makes the result independent of the order of the input
GpuLists(values, n) ==
    {g \in [1..n -> values] : \A i \in 1..(n - 1) : GpuLeq(g[i], g[i + 1])}

\* the arrangements of a list
Arrangements(g) ==
    {p \in [1..Len(g) -> 1..Len(g)] : \A i, j \in 1..Len(g) : i # j => p[i] # p[j]}

\* sorted.sort_unstable_by(|b, a| b.layer_cap.cmp(&a.layer_cap))
\* (scheduling.rs:149): the closure compares its first argument with its
\* second, so the order is ascending in layer_cap; an unstable sort may leave
\* GPUs of equal layer_cap in any order.
SortOutcomes(g) ==
    {s \in {[i \in 1..Len(g) |-> g[p[i]]] : p \in Arrangements(g)} :
        \A i \in 1..(Len(g) - 1) : s[i].layer_cap <= s[i + 1].layer_cap}

LayerCaps(g) == [i \in 1..Len(g) |-> g[i].layer_cap]
ComputeCaps(g) == [i \in 1..Len(g) |-> g[i].compute_cap]

(***************************************************************************)
(* State.                                                                  *)
(***************************************************************************)
VARIABLES
    \* phase1_naive: arguments
    gpu_caps, model_layer, r_rtt, t_comp,
    \* what sort_unstable_by of this build returns for gpu_caps
    sort_result,
    \* the plan of the first call, once a second call with the same arguments
    \* has started
    first_run,
    \* phase1_naive: locals
    sorted, k_max, k, best_k, best_score, best_trace, pipelines,
    \* phase1_naive: the allocations printed so far, one per pipeline
    layers,
    \* phase1_naive: what solve_for_k returned in each iteration so far
    cands,
    \* phase1_naive: position
    pc,
    \* water_fill: arguments
    wf_model_layer, wf_layer_cap, wf_compute_cap,
    \* water_fill: `remainders` after the sort, as stage indices
    wf_order,
    \* water_fill: alloc, remaining and the position of the loop in `remainders`
    wf_st,
    \* water_fill: position
    wf_pc,
    \* the ClusterMap: node_id -> NodePerf, a function on the keys present
    cluster,
    \* the holder of the ClusterMap's write lock
    lock,
    \* start_gossip_loop: perf of the current round, and position
    g_perf, g_pc,
    \* the wall clock, in milliseconds
    now

p1vars == <<gpu_caps, model_layer, r_rtt, t_comp, sort_result, first_run,
            sorted, k_max, k, best_k, best_score, best_trace, pipelines,
            layers, cands, pc>>

wfvars == <<wf_model_layer, wf_layer_cap, wf_compute_cap, wf_order, wf_st, wf_pc>>

gvars == <<cluster, lock, g_perf, g_pc, now>>

vars == <<p1vars, wfvars, gvars>>

(***************************************************************************)
(* NodePerf and the ClusterMap.                                            *)
(***************************************************************************)
\* largest wall-clock value, and number of distinct profile contents
MaxTs == 2
MaxPayload == 2

\* NODE_ID of this process, and the node ids records can carry
LocalId == "A"
NodeIds == {"A", "B"}

\* NodePerf: node_id, timestamp_ms and the measured contents (ram_tokens,
\* layer_latency, rtt) as one value
NodePerf(id, ts, pl) == [node_id |-> id, timestamp_ms |-> ts, payload |-> pl]

\* no perf has been built yet
NoPerf == NodePerf("", 0, 0)

\* build_local_perf(node_id): the profile of this node at the current wall clock
BuildLocalPerf(id, ts, pl) == NodePerf(id, ts, pl)

\* HashMap::insert through the write guard (gossip.rs:16): insert or overwrite
HashMapInsert(map, key, value) ==
    [n \in (DOMAIN map) \cup {key} |-> IF n = key THEN value ELSE map[n]]

\* insert_or_merge of the ClusterMap: insert when absent, replace only when the
\* incoming timestamp is strictly greater
InsertOrMerge(map, p) ==
    IF p.node_id \notin DOMAIN map THEN HashMapInsert(map, p.node_id, p)
    ELSE IF p.timestamp_ms > map[p.node_id].timestamp_ms
    THEN HashMapInsert(map, p.node_id, p)
    ELSE map

\* the empty HashMap
EmptyMap == [n \in {} |-> NoPerf]

\* no first call is on record
NoPlan == [best_k |-> 0 - 1, pipelines |-> <<>>, layers |-> <<>>]

\* the state of the parts that are not running
IdleP1 ==
    /\ gpu_caps = <<>> /\ model_layer = 0 /\ r_rtt = 0 /\ t_comp = 0
    /\ sort_result = <<>> /\ first_run = NoPlan
    /\ sorted = <<>> /\ k_max = 0 /\ k = 0 /\ best_k = 0
    /\ best_score = F64Min /\ best_trace = <<>> /\ pipelines = <<>>
    /\ layers = <<>> /\ cands = <<>> /\ pc = "idle"

IdleWf ==
    /\ wf_model_layer = 0 /\ wf_layer_cap = <<>> /\ wf_compute_cap = <<>>
    /\ wf_order = <<>>
    /\ wf_st = [alloc |-> <<>>, remaining |-> 0, pos |-> 0]
    /\ wf_pc = "idle"

IdleGossip ==
    /\ cluster = EmptyMap /\ lock = "free" /\ g_perf = NoPerf
    /\ g_pc = "idle" /\ now = 0

\* the locals before the first statement of phase1_naive
P1Locals ==
    /\ sorted = <<>>
    /\ k_max = 0
    /\ k = 0
    /\ best_k = 0
    /\ best_score = F64Min
    /\ best_trace = <<>>
    /\ pipelines = <<>>
    /\ layers = <<>>
    /\ cands = <<>>
    /\ pc = "start"

\* a call phase1_naive(gpu_caps, model_layer, 1.0, r_rtt, t_comp).  The order of
\* two scores depends on r_rtt / t_comp only, so t_comp is the unit and r_rtt
\* ranges over the ratios.  The sort of the standard library is deterministic
\* (its pivot selection has a fixed seed): which of the ascending arrangements
\* it returns for a list is not specified, but it is the same in every call.
InitP1 ==
    /\ IdleWf /\ IdleGossip
    /\ gpu_caps \in UNION {GpuLists(GpuValues, n) : n \in 0..MaxN}
    /\ sort_result \in SortOutcomes(gpu_caps)
    /\ first_run = NoPlan
    /\ model_layer \in 0..MaxL
    /\ r_rtt \in 0..MaxRtt
    /\ t_comp = 1
    /\ P1Locals

(***************************************************************************)
(* phase1_naive, statement by statement.                                   *)
(***************************************************************************)
\* a sort that may return a different ascending arrangement in every call
P1SortAnyOrder ==
    /\ pc = "start"
    /\ \E s \in SortOutcomes(gpu_caps) :
        /\ sorted' = s
        /\ IF model_layer = 0
           THEN /\ pc' = "panic"
                /\ UNCHANGED <<k_max, k>>
           ELSE /\ k_max' = Min(Len(s), SumSeq(LayerCaps(s)) \div model_layer)
                /\ k' = 1
                /\ pc' = "loop"
    /\ UNCHANGED <<gpu_caps, model_layer, r_rtt, t_comp, sort_result, first_run>>
    /\ UNCHANGED <<best_k, best_score, best_trace, pipelines, layers, cands>>
    /\ UNCHANGED <<wfvars, gvars>>

\* scheduling.rs:147-158: clone and sort, n, total_cap, k_max.  total_cap /
\* model_layer is a usize division: it panics when model_layer = 0.
P1Sort ==
    /\ pc = "start"
    /\ sorted' = sort_result
    /\ IF model_layer = 0
       THEN /\ pc' = "panic"
            /\ UNCHANGED <<k_max, k>>
       ELSE /\ k_max' = Min(Len(sorted'), SumSeq(LayerCaps(sorted')) \div model_layer)
            /\ k' = 1
            /\ pc' = "loop"
    /\ UNCHANGED <<gpu_caps, model_layer, r_rtt, t_comp, sort_result, first_run>>
    /\ UNCHANGED <<best_k, best_score, best_trace, pipelines, layers, cands>>
    /\ UNCHANGED <<wfvars, gvars>>

\* a selection loop that keeps the last candidate instead of the best one
BetterAlways(z, best) == TRUE

\* scheduling.rs:165: does candidate k with score z replace the best so far
Better(z, best) == ScoreGt(z, best)

\* scheduling.rs:160-170: one iteration of `for k in 1..=k_max`
P1Candidate ==
    /\ pc = "loop"
    /\ k <= k_max
    /\ cands' = Append(cands, solve_for_k(sorted, model_layer, k))
    /\ LET s_star == cands'[k].s_star
           trace == cands'[k].trace
           z == Score(k, s_star, t_comp, r_rtt)
       IN  IF Better(z, best_score)
           THEN /\ best_score' = z
                /\ best_k' = k
                /\ best_trace' = trace
           ELSE UNCHANGED <<best_score, best_k, best_trace>>
    /\ k' = k + 1
    /\ UNCHANGED <<gpu_caps, model_layer, r_rtt, t_comp, sort_result, first_run>>
    /\ UNCHANGED <<sorted, k_max, pipelines, layers, pc>>
    /\ UNCHANGED <<wfvars, gvars>>

\* scheduling.rs:171-176: the loop is over; print best_k, reconstruct
P1Reconstruct ==
    /\ pc = "loop"
    /\ k > k_max
    /\ pipelines' = reconstruct(best_trace, sorted)
    /\ pc' = "fill"
    /\ UNCHANGED <<gpu_caps, model_layer, r_rtt, t_comp, sort_result, first_run>>
    /\ UNCHANGED <<sorted, k_max, k, best_k, best_score, best_trace, layers,
                   cands>>
    /\ UNCHANGED <<wfvars, gvars>>

\* scheduling.rs:177-185: one iteration of `for pipeline in &pipelines`
P1Fill ==
    /\ pc = "fill"
    /\ Len(layers) < Len(pipelines)
    /\ LET pipeline == pipelines[Len(layers) + 1]
       IN  layers' = Append(layers, water_fill(model_layer, LayerCaps(pipeline),
                                               ComputeCaps(pipeline)))
    /\ UNCHANGED <<gpu_caps, model_layer, r_rtt, t_comp, sort_result, first_run>>
    /\ UNCHANGED <<sorted, k_max, k, best_k, best_score, best_trace,
                   pipelines, cands, pc>>
    /\ UNCHANGED <<wfvars, gvars>>

\* scheduling.rs:186: phase1_naive returns
P1Return ==
    /\ pc = "fill"
    /\ Len(layers) = Len(pipelines)
    /\ pc' = "done"
    /\ UNCHANGED <<gpu_caps, model_layer, r_rtt, t_comp, sort_result, first_run>>
    /\ UNCHANGED <<sorted, k_max, k, best_k, best_score, best_trace,
                   pipelines, layers, cands>>
    /\ UNCHANGED <<wfvars, gvars>>

NextP1 == P1Sort \/ P1Candidate \/ P1Reconstruct \/ P1Fill \/ P1Return

\* the plan phase1_naive printed: best_k, the pipelines and their allocations
Plan == [best_k |-> best_k, pipelines |-> pipelines, layers |-> layers]

\* phase1_naive has returned and is called again with the same arguments
P1Again ==
    /\ pc = "done"
    /\ first_run = NoPlan
    /\ first_run' = Plan
    /\ sorted' = <<>>
    /\ k_max' = 0
    /\ k' = 0
    /\ best_k' = 0
    /\ best_score' = F64Min
    /\ best_trace' = <<>>
    /\ pipelines' = <<>>
    /\ layers' = <<>>
    /\ cands' = <<>>
    /\ pc' = "start"
    /\ UNCHANGED <<gpu_caps, model_layer, r_rtt, t_comp, sort_result>>
    /\ UNCHANGED <<wfvars, gvars>>

NextTwice == NextP1 \/ P1Again

SpecTwice == InitP1 /\ [][NextTwice]_vars

(***************************************************************************)
(* water_fill, statement by statement, on its own arguments.               *)
(***************************************************************************)
\* a call water_fill(model_layer, &layer_cap, &compute_cap)
InitWf ==
    /\ IdleP1 /\ IdleGossip
    /\ \E n \in 0..MaxN :
        /\ wf_layer_cap \in [1..n -> 1..MaxCap]
        /\ wf_compute_cap \in [1..n -> 0..MaxComp]
    /\ wf_model_layer \in 0..MaxL
    /\ wf_order = <<>>
    /\ wf_st = [alloc |-> <<>>, remaining |-> 0, pos |-> 0]
    /\ wf_pc = "start"

\* scheduling.rs:189-213: shares, floor, remaining, sorted remainders
WfFloor ==
    /\ wf_pc = "start"
    /\ wf_st' = WfInit(wf_model_layer, wf_layer_cap, wf_compute_cap)
    /\ wf_order' = RemainderOrder(wf_model_layer, wf_layer_cap, wf_compute_cap)
    /\ wf_pc' = "loop"
    /\ UNCHANGED <<wf_model_layer, wf_layer_cap, wf_compute_cap>>
    /\ UNCHANGED <<p1vars, gvars>>

\* scheduling.rs:216-224: one iteration of the Hamilton loop
WfIter ==
    /\ wf_pc = "loop"
    /\ ~WfLoopDone(wf_st, wf_order)
    /\ wf_st' = WfLoopStep(wf_st, wf_order, wf_layer_cap)
    /\ UNCHANGED <<wf_model_layer, wf_layer_cap, wf_compute_cap, wf_order, wf_pc>>
    /\ UNCHANGED <<p1vars, gvars>>

\* scheduling.rs:226: the loop is left and alloc is returned
WfReturn ==
    /\ wf_pc = "loop"
    /\ WfLoopDone(wf_st, wf_order)
    /\ wf_pc' = "ret"
    /\ UNCHANGED <<wf_model_layer, wf_layer_cap, wf_compute_cap, wf_order, wf_st>>
    /\ UNCHANGED <<p1vars, gvars>>

NextWf == WfFloor \/ WfIter \/ WfReturn

SpecWf == InitWf /\ [][NextWf]_vars

(***************************************************************************)
(* start_gossip_loop (gossip.rs:8-25), one action per stretch between two  *)
(* suspension points, and the handler that merges a received record.       *)
(***************************************************************************)
\* gossip.rs:9  let peers: Vec<String> = vec![]
Peers == <<>>

InitGossip ==
    /\ IdleP1 /\ IdleWf
    /\ cluster = EmptyMap
    /\ lock = "free"
    /\ g_perf = NoPerf
    /\ g_pc = "build"
    /\ now = 0

\* gossip.rs:12-15: build the local perf, then wait for the write lock
GossipBuild ==
    /\ g_pc = "build"
    /\ \E pl \in 1..MaxPayload : g_perf' = BuildLocalPerf(LocalId, now, pl)
    /\ g_pc' = "lock"
    /\ UNCHANGED <<cluster, lock, now>>
    /\ UNCHANGED <<p1vars, wfvars>>

\* gossip.rs:15: cluster.write().await returns the guard
GossipAcquire ==
    /\ g_pc = "lock"
    /\ lock = "free"
    /\ lock' = "gossip"
    /\ g_pc' = "locked"
    /\ UNCHANGED <<cluster, g_perf, now>>
    /\ UNCHANGED <<p1vars, wfvars>>

\* an insert whose write guard lives until the end of the loop body
GossipInsertKeepsGuard ==
    /\ g_pc = "locked"
    /\ cluster' = HashMapInsert(cluster, g_perf.node_id, g_perf)
    /\ g_pc' = "send"
    /\ UNCHANGED <<lock, g_perf, now>>
    /\ UNCHANGED <<p1vars, wfvars>>

\* gossip.rs:16-17: map.insert(..), and the guard is dropped at the end of the
\* block
GossipInsert ==
    /\ g_pc = "locked"
    /\ cluster' = HashMapInsert(cluster, g_perf.node_id, g_perf)
    /\ lock' = "free"
    /\ g_pc' = "send"
    /\ UNCHANGED <<g_perf, now>>
    /\ UNCHANGED <<p1vars, wfvars>>

\* gossip.rs:19-23: the loop over peers (none), up to the sleep
GossipSend ==
    /\ g_pc = "send"
    /\ g_pc' = "sleep"
    /\ UNCHANGED <<cluster, lock, g_perf, now>>
    /\ UNCHANGED <<p1vars, wfvars>>

\* gossip.rs:23: the sleep is over and the next round starts; the wall clock
\* does not run backwards
GossipSleep ==
    /\ g_pc = "sleep"
    /\ \E t \in now..MaxTs : now' = t
    /\ g_pc' = "build"
    /\ UNCHANGED <<cluster, lock, g_perf>>
    /\ UNCHANGED <<p1vars, wfvars>>

\* a record received from a peer (a Perf message, or one entry of a
\* SyncResponse) is merged into the ClusterMap under the write lock
ReceivePerf ==
    /\ g_pc # "idle"
    /\ lock = "free"
    /\ \E id \in NodeIds, ts \in 0..MaxTs, pl \in 1..MaxPayload :
        cluster' = InsertOrMerge(cluster, NodePerf(id, ts, pl))
    /\ UNCHANGED <<lock, g_perf, g_pc, now>>
    /\ UNCHANGED <<p1vars, wfvars>>

NextGossip ==
    GossipBuild \/ GossipAcquire \/ GossipInsert \/ GossipSend \/ GossipSleep
        \/ ReceivePerf

SpecGossip == InitGossip /\ [][NextGossip]_vars

Init == InitP1

Next == NextP1

Spec == Init /\ [][Next]_vars

(***************************************************************************)
(* The selection of k on longer GPU lists: the same program, called with   *)
(* up to SelN GPUs of compute_cap 1 (the selection does not read           *)
(* compute_cap).                                                           *)
(***************************************************************************)
SelN == 5
SelCap == 4
SelL == 4

InitSel ==
    /\ IdleWf /\ IdleGossip
    /\ gpu_caps \in UNION {GpuLists({Gpu(c, 1) : c \in 1..SelCap}, n) : n \in 1..SelN}
    /\ sort_result \in SortOutcomes(gpu_caps)
    /\ first_run = NoPlan
    /\ model_layer \in 1..SelL
    /\ r_rtt \in 0..MaxRtt
    /\ t_comp = 1
    /\ P1Locals

SpecSel == InitSel /\ [][Next]_vars

(***************************************************************************)
(* Definitions used to state the properties of the scheduler.              *)
(***************************************************************************)
\* the selection loop is over
Selected == pc \in {"fill", "done"}

\* s*(k) for the sorted list: the minimum over all decision sequences, which is
\* the value dfs returned in iteration k
SStar(kk) == cands[kk].s_star

Feasible(kk) == SStar(kk) < INF

\* Z(k)
Z(kk) == Score(kk, SStar(kk), t_comp, r_rtt)

RECURSIVE TotalLen(_)
\* the number of stages of a list of pipelines
TotalLen(ps) == IF ps = <<>> THEN 0 ELSE Len(Head(ps)) + TotalLen(Tail(ps))

\* the number of times GPU index g occurs in a list of pipelines of indices
Occurrences(g, ps) ==
    Cardinality({<<p, st>> \in (1..Len(ps)) \X (0..Len(sorted)) :
                    st >= 1 /\ st <= Len(ps[p]) /\ ps[p][st] = g})

\* in the pipelines ps, a GPU skipped by the trace occurs nowhere and every
\* other GPU occurs exactly once
OneStagePerGpu(trace, ps) ==
    \A g \in 0..(Len(trace) - 1) :
        Occurrences(g, ps) = IF trace[g + 1].tag = "Skip" THEN 0 ELSE 1

\* the feasible candidates of maximal score
MaxFeasible ==
    {k1 \in 1..k_max :
        Feasible(k1) /\ \A k2 \in 1..k_max : Feasible(k2) => ~ScoreGt(Z(k2), Z(k1))}

SetMax(S) == CHOOSE x \in S : \A y \in S : y <= x

(***************************************************************************)
(* C1.  Plan completeness, end to end: every allocation that phase1_naive  *)
(* prints for an emitted pipeline sums to exactly L, so the cursor ranges  *)
(* cover [0, L) with no gap and no overlap.                                *)
(***************************************************************************)
C1_PlanCompleteness ==
    \A p \in 1..Len(layers) : SumSeq(layers[p]) = model_layer

(***************************************************************************)
(* C4.  Stage count minimality: the total number of stages of the          *)
(* pipelines reconstructed for the selected k-hat equals s*(k-hat).        *)
(***************************************************************************)
C4_StageMinimality ==
    (Selected /\ best_k >= 1) => TotalLen(pipelines) = SStar(best_k)

(***************************************************************************)
(* C5.  Score optimality: once the selection is over and k_max >= 1, the   *)
(* selected k-hat is a candidate and no feasible candidate k has a score   *)
(* Z(k) greater than Z(k-hat).                                             *)
(***************************************************************************)
C5_ScoreOptimality ==
    (Selected /\ k_max >= 1) =>
        /\ best_k \in 1..k_max
        /\ \A k2 \in 1..k_max : Feasible(k2) => ~ScoreGt(Z(k2), Z(best_k))

\* a finished selection between two feasible candidates of different score,
\* in which the second one replaced the first
C5_Witness ==
    /\ pc = "done"
    /\ best_k = 2
    /\ Feasible(1) /\ Feasible(2)
    /\ ScoreGt(Z(2), Z(1))
    /\ k_max = 3 /\ ~Feasible(3) /\ r_rtt > 0

(***************************************************************************)
(* C6.  Selection tie-break: when two or more feasible candidates share    *)
(* the maximal score, the selected k-hat is the larger of them.            *)
(***************************************************************************)
C6_TieLargerK ==
    (Selected /\ Cardinality(MaxFeasible) >= 2) => best_k = SetMax(MaxFeasible)

(***************************************************************************)
(* C9.  Failure semantics: phase1_naive raises no runtime error, and it    *)
(* returns an empty plan when N = 0, L = 0 or k_max = 0.                   *)
(***************************************************************************)
C9_TotalAndEmptyPlan ==
    /\ pc # "panic"
    /\ (pc = "done" /\ (Len(gpu_caps) = 0 \/ model_layer = 0 \/ k_max = 0))
          => (pipelines = <<>> /\ best_trace = <<>>)

(***************************************************************************)
(* C10.  Each assigned GPU contributes exactly one stage: for the trace    *)
(* solve_for_k produces for any candidate k, a GPU whose decision is Skip  *)
(* occurs in no pipeline of reconstruct, and a GPU whose decision is       *)
(* StartNew or Extend occurs exactly once, in exactly one pipeline.  The    *)
(* traces are those recorded while the selection loop runs; the record     *)
(* does not change afterwards.                                             *)
(***************************************************************************)
C10_OneStagePerGpu ==
    pc = "loop" =>
        \A kk \in 1..Len(cands) :
            OneStagePerGpu(cands[kk].trace, reconstructIdx(cands[kk].trace))

\* a trace with a StartNew, an Extend and a Skip has been replayed
C10_Witness ==
    /\ Selected
    /\ \E a, b, c \in 1..Len(best_trace) :
        /\ best_trace[a].tag = "StartNew"
        /\ best_trace[b].tag = "Extend"
        /\ best_trace[c].tag = "Skip"
    /\ Len(pipelines) = 1
    /\ TotalLen(pipelines) = Len(best_trace) - 1

(***************************************************************************)
(* C2.  Water-fill post-condition on the sum: when every compute_cap is at *)
(* least 1 and the layer caps sum to at least L, the returned allocation   *)
(* sums to L.                                                              *)
(***************************************************************************)
C2_SumIsL ==
    (/\ wf_pc = "ret"
     /\ \A i \in 1..Len(wf_compute_cap) : wf_compute_cap[i] >= 1
     /\ SumSeq(wf_layer_cap) >= wf_model_layer)
        => SumSeq(wf_st.alloc) = wf_model_layer

(***************************************************************************)
(* C3.  Capacity respect: after the floor step and after every remainder   *)
(* increment, every entry of alloc is between 0 and the stage's layer_cap. *)
(***************************************************************************)
C3_CapacityRespect ==
    wf_pc \in {"loop", "ret"} =>
        /\ Len(wf_st.alloc) = Len(wf_layer_cap)
        /\ \A i \in 1..Len(wf_layer_cap) :
            0 <= wf_st.alloc[i] /\ wf_st.alloc[i] <= wf_layer_cap[i]

\* a returned allocation in which the floor step clamped a share to the cap,
\* the loop passed over a stage that was full and incremented another one
C3_Witness ==
    /\ wf_pc = "ret"
    /\ \E i \in 1..Len(wf_layer_cap) :
        /\ wf_model_layer * wf_compute_cap[i] > wf_layer_cap[i] * TotalF(wf_compute_cap)
        /\ wf_st.alloc[i] = wf_layer_cap[i]
    /\ \E j \in 1..Len(wf_layer_cap) :
        wf_st.alloc[j] > FloorAlloc(wf_model_layer, wf_layer_cap, wf_compute_cap)[j]
    /\ wf_st.pos > SumSeq(wf_st.alloc)
                    - SumSeq(FloorAlloc(wf_model_layer, wf_layer_cap, wf_compute_cap))

(***************************************************************************)
(* C7.  Last-writer-wins merge: no write changes the record stored for a   *)
(* node_id unless the record written has a strictly greater timestamp_ms,  *)
(* and no write removes an entry.                                          *)
(***************************************************************************)
C7_LastWriterWins ==
    [][\A n \in DOMAIN cluster :
          /\ n \in DOMAIN cluster'
          /\ cluster'[n] # cluster[n] =>
                cluster'[n].timestamp_ms > cluster[n].timestamp_ms]_vars

(***************************************************************************)
(* C8.  Merge monotonicity: the timestamp_ms stored for a node_id never    *)
(* decreases from one state to the next.                                   *)
(***************************************************************************)
C8_MergeMonotonicity ==
    [][\A n \in DOMAIN cluster :
          /\ n \in DOMAIN cluster'
          /\ cluster'[n].timestamp_ms >= cluster[n].timestamp_ms]_vars

C11_PipelineCount ==
    (Selected /\ k_max >= 1) => Len(pipelines) = best_k

(***************************************************************************)
(* C13.  Preprocessing order: the list handed to solve_for_k and           *)
(* reconstruct is sorted by layer_cap in non-increasing order.             *)
(***************************************************************************)
C13_SortedNonIncreasing ==
    pc \in {"loop", "fill", "done"} =>
        \A i \in 1..(Len(sorted) - 1) :
            sorted[i].layer_cap >= sorted[i + 1].layer_cap

RECURSIVE StateAfter(_, _, _, _)
\* the DpState of the search after the first n decisions of a trace
StateAfter(n, trace, gpus, L) ==
    IF n = 0 THEN DpStateNew
    ELSE LET prev == StateAfter(n - 1, trace, gpus, L)
             d == trace[n]
             ci == gpus[n].layer_cap
         IN  IF d.tag = "Skip" THEN prev
             ELSE IF d.tag = "StartNew" THEN StartNewState(prev, L, ci)
             ELSE ExtendState(prev, d.idx, ci)

\* the pipeline (1-based) of ps in which GPU index g is a stage, 0 when none
PipelineOf(g, ps) ==
    IF \E q \in 1..Len(ps) : \E st \in 1..Len(ps[q]) : ps[q][st] = g
    THEN CHOOSE q \in 1..Len(ps) : \E st \in 1..Len(ps[q]) : ps[q][st] = g
    ELSE 0

\* the layers the pipeline `pipe` of GPU indices still needed when GPU index g
\* was decided: L minus the capacities of its stages placed before g
NeedBefore(g, pipe, gpus, L) ==
    SatSub(L, SumSeq([st \in 1..Len(pipe) |->
                        IF pipe[st] < g THEN gpus[pipe[st] + 1].layer_cap ELSE 0]))

\* every Extend(j) of the trace is replayed onto a pipeline that still needs
\* exactly the residual r[j] the search reduced at that decision
ExtendFidelity(trace, gpus, L) ==
    \A n \in 1..Len(trace) :
        trace[n].tag = "Extend" =>
            LET ps == reconstructIdx(trace)
                q == PipelineOf(n - 1, ps)
            IN  /\ q # 0
                /\ NeedBefore(n - 1, ps[q], gpus, L)
                      = StateAfter(n - 1, trace, gpus, L).r[trace[n].idx + 1]

(***************************************************************************)
(* C14.  Reconstruction fidelity: for the trace solve_for_k produces for   *)
(* any candidate k, reconstruct appends the GPU of each Extend(j) to the   *)
(* pipeline whose residual the search reduced at that decision: the        *)
(* pipeline is not complete and still needs exactly r[j] layers.           *)
(***************************************************************************)
C14_ReconstructionFidelity ==
    pc = "loop" =>
        \A kk \in 1..Len(cands) :
            ExtendFidelity(cands[kk].trace, sorted, model_layer)

(***************************************************************************)
(* C15.  Phase-1 guarantees Phase-2 feasibility: every pipeline            *)
(* reconstructed for the selected k-hat has layer capacities that sum to   *)
(* at least L.                                                             *)
(***************************************************************************)
C15_PipelinesFitModel ==
    Selected =>
        \A q \in 1..Len(pipelines) :
            SumSeq(LayerCaps(pipelines[q])) >= model_layer

\* the transitions the search may take from a state, for a target k
Transitions(state, kk) ==
    {Skip} \cup {Extend(j) : j \in 0..(Len(state.r) - 1)}
           \cup (IF CanStartNew(state, kk) THEN {StartNew} ELSE {})

\* the place of a transition in the order Skip, Extend(0), Extend(1), ..,
\* StartNew
Rank(d, state) ==
    IF d.tag = "Skip" THEN 0
    ELSE IF d.tag = "Extend" THEN 1 + d.idx
    ELSE 1 + Len(state.r)

\* the stage count of the best completion that takes transition d at GPU
\* index i (0-based) from a state
ValueVia(d, i, gpus, L, kk, state) ==
    LET ci == gpus[i + 1].layer_cap
    IN  IF d.tag = "Skip"
        THEN dfs(i + 1, gpus, L, kk, state, <<>>, <<>>).v
        ELSE IF d.tag = "StartNew"
        THEN 1 + dfs(i + 1, gpus, L, kk, StartNewState(state, L, ci), <<>>, <<>>).v
        ELSE 1 + dfs(i + 1, gpus, L, kk, ExtendState(state, d.idx, ci), <<>>, <<>>).v

\* the transitions that reach the minimum stage count from a state at index i
MinTransitions(i, gpus, L, kk, state) ==
    LET m == dfs(i, gpus, L, kk, state, <<>>, <<>>).v
    IN  {d \in Transitions(state, kk) : ValueVia(d, i, gpus, L, kk, state) = m}

\* at every index where two or more transitions reach the minimum, the trace
\* holds the first of them
FollowsTieBreak(trace, gpus, L, kk) ==
    \A n \in 1..Len(trace) :
        LET state == StateAfter(n - 1, trace, gpus, L)
            ties == MinTransitions(n - 1, gpus, L, kk, state)
        IN  Cardinality(ties) >= 2 =>
                /\ trace[n] \in ties
                /\ \A d \in ties : Rank(trace[n], state) <= Rank(d, state)

(***************************************************************************)
(* C17.  Transition tie-break: in the trace solve_for_k returns for a      *)
(* feasible k, at every GPU index where two or more of the transitions     *)
(* Skip, Extend(0), Extend(1), .., StartNew lead to the same minimum stage *)
(* count, the recorded decision is the first of them in that order.        *)
(***************************************************************************)
C17_TransitionTieBreak ==
    pc = "loop" =>
        \A kk \in 1..Len(cands) :
            Feasible(kk) => FollowsTieBreak(cands[kk].trace, sorted, model_layer, kk)

(***************************************************************************)
(* C16.  Infeasible candidates are skipped: the candidate held in best_k   *)
(* is never one for which solve_for_k returned INF, neither while the      *)
(* selection loop runs nor after it.                                       *)
(***************************************************************************)
C16_InfeasibleSkipped ==
    best_k >= 1 => Feasible(best_k)

RECURSIVE Hamilton(_, _, _, _)
\* the remainder distribution as the specification words it: hand out one
\* layer at a time along `order`, passing over the stages already at their
\* layer_cap and starting over at the end of the list, until nothing remains
\* or every stage is full
Hamilton(alloc, remaining, pos, order) ==
    IF remaining = 0 \/ \A i \in 1..Len(alloc) : alloc[i] >= wf_layer_cap[i]
    THEN alloc
    ELSE LET at == (pos % Len(order)) + 1
             idx == order[at]
         IN  IF alloc[idx] < wf_layer_cap[idx]
             THEN Hamilton([alloc EXCEPT ![idx] = @ + 1], remaining - 1, pos + 1, order)
             ELSE Hamilton(alloc, remaining, pos + 1, order)

\* indices 1..n by descending key, ties by ascending index
IsDescendingStable(order, key) ==
    /\ Len(order) = Len(key)
    /\ {order[i] : i \in 1..Len(order)} = 1..Len(key)
    /\ \A i \in 1..(Len(order) - 1) :
        \/ key[order[i]] > key[order[i + 1]]
        \/ key[order[i]] = key[order[i + 1]] /\ order[i] < order[i + 1]

(***************************************************************************)
(* C18.  Phase-2 infeasibility is reported: water_fill returns an          *)
(* allocation only for a pipeline that can hold the model, i.e. it never   *)
(* returns one when the layer caps of the stages sum to less than L.       *)
(***************************************************************************)
C18_InfeasibilityReported ==
    wf_pc = "ret" => SumSeq(wf_layer_cap) >= wf_model_layer

(***************************************************************************)
(* C19.  Largest-remainder order: the stages are visited by descending     *)
(* fractional part of their capped ideal share, ties by ascending stage    *)
(* index, and the returned allocation is the floor allocation plus the     *)
(* remaining layers handed out one at a time in that order, passing over   *)
(* stages at their layer_cap, until none remain.                           *)
(***************************************************************************)
C19_LargestRemainder ==
    wf_pc = "ret" =>
        /\ IsDescendingStable(wf_order,
              RemainderNum(wf_model_layer, wf_layer_cap, wf_compute_cap))
        /\ wf_st.alloc =
              LET a == FloorAlloc(wf_model_layer, wf_layer_cap, wf_compute_cap)
              IN  Hamilton(a, SatSub(wf_model_layer, SumSeq(a)), 0, wf_order)

\* a DpState as the specification describes it, for model L and target kk
WellFormed(state, L, kk) ==
    /\ \A j \in 1..(Len(state.r) - 1) : state.r[j] <= state.r[j + 1]
    /\ \A j \in 1..Len(state.r) : state.r[j] \in 1..(L - 1)
    /\ state.f + Len(state.r) <= kk

(***************************************************************************)
(* C20.  DP state well-formedness: every state (r, f) that dfs reaches     *)
(* from (empty, 0) for a target k has r sorted ascending, every residual   *)
(* in 1..L-1 and f + |r| <= k.  The inputs have layer_cap >= 1 and the     *)
(* loop runs only for L >= 1.                                              *)
(***************************************************************************)
C20_DpStateWellFormed ==
    pc = "loop" =>
        \A kk \in 1..Len(cands) :
            \A st \in dfsStates(0, sorted, model_layer, kk, DpStateNew) :
                WellFormed(st, model_layer, kk)

\* the search for k = 2 has been in a state with two partial pipelines of
\* different residual and in a state with both pipelines complete
C20_Witness ==
    /\ pc = "loop"
    /\ Len(cands) >= 2
    /\ \E st \in dfsStates(0, sorted, model_layer, 2, DpStateNew) :
        Len(st.r) = 2 /\ st.r[1] < st.r[2]
    /\ [r |-> <<>>, f |-> 2] \in dfsStates(0, sorted, model_layer, 2, DpStateNew)

(***************************************************************************)
(* C21.  No lock across a suspension point: whenever start_gossip_loop is  *)
(* at the loop over the peers (where it awaits send_perf) or at the sleep, *)
(* it does not hold the write lock of the ClusterMap.                      *)
(***************************************************************************)
C21_NoLockAcrossAwait ==
    g_pc \in {"send", "sleep"} => lock # "gossip"

\* the loop sleeps after a round that wrote the local perf, and a record of
\* another node has been merged by the receive handler
C21_Witness ==
    /\ g_pc = "sleep"
    /\ lock = "free"
    /\ LocalId \in DOMAIN cluster
    /\ cluster[LocalId] = g_perf
    /\ \E n \in DOMAIN cluster : n # LocalId

(***************************************************************************)
(* C23.  A feasible candidate always exists when k_max >= 1: the call      *)
(* solve_for_k(.., 1) of the selection loop returns a finite stage count   *)
(* and a trace with one decision per GPU; and a finished phase1_naive has  *)
(* an empty plan only when k_max = 0.                                      *)
(***************************************************************************)
C23_FeasibleCandidateExists ==
    /\ Len(cands) >= 1 =>
          /\ Feasible(1)
          /\ Len(cands[1].trace) = Len(sorted)
    /\ (pc = "done" /\ pipelines = <<>>) => k_max = 0

====
